---- MODULE Spec2Model ----
(***************************************************************************)
(* A model of the dimensional-analysis library in src/units: the Unit      *)
(* algebra and the UnitVal (value-with-unit) algebra of datatypes.py, the  *)
(* SafeConstructor of constructor.py and the catalog units of unit.py.     *)
(*                                                                         *)
(* The library is a set of pure methods.  The model evaluates method       *)
(* chains, as in  (a*b)/b  or  p.to(b).to(a) : the inputs a, b (Units)     *)
(* and p, q (UnitVals) are drawn in Init, every action is one method call  *)
(* whose receiver is the first input or the value returned by the previous *)
(* call, and whose argument is one of the inputs.  chain records the calls *)
(* of the expression under evaluation: receiver, argument, outcome.        *)
(*                                                                         *)
(* Numbers are exact rationals n/d in lowest terms, tagged with their      *)
(* Python type (fl = TRUE: float, FALSE: int).  Rounding of floats is not  *)
(* modelled; exponents and the argument of ** are integers.                *)
(*                                                                         *)
(* The dicts are the mutable objects of the library.  heap holds the       *)
(* content of every dict object a Unit refers to as its _bases, the one    *)
(* shared as the default of Unit.__init__ included; refs names, for every  *)
(* call of chain, the dict of the receiver's, the argument's and the       *)
(* result's unit.  The Units and UnitVals of a, b, p, q and chain are the  *)
(* values as they were constructed.                                        *)
(***************************************************************************)
EXTENDS Integers, Sequences, FiniteSets, TLC

VARIABLES a, b, p, q, chain, heap, refs

vars == <<a, b, p, q, chain, heap, refs>>

\* The longest method chain evaluated.
MaxChain == 2

(***************************************************************************)
(* Numbers (Num = Union[float,int])                                        *)
(***************************************************************************)
Abs(x) == IF x < 0 THEN -x ELSE x

RECURSIVE GCD(_, _)
GCD(x, y) == IF y = 0 THEN x ELSE GCD(y, x % y)

\* n/d in lowest terms with a positive denominator
Norm(n, d, fl) ==
    LET g == GCD(Abs(n), Abs(d))
        s == IF d < 0 THEN -1 ELSE 1
    IN [n |-> s * ((Abs(n) \div g) * (IF n < 0 THEN -1 ELSE 1)),
        d |-> Abs(d) \div g,
        fl |-> fl]

\* a Python int literal
PyInt(n) == [n |-> n, d |-> 1, fl |-> FALSE]

\* a Python float literal n/d
PyFloat(n, d) == Norm(n, d, TRUE)

\* x == y on numbers: by value, an int equals the float of the same value
NumEq(x, y) == x.n = y.n /\ x.d = y.d

\* x + y : a float when either operand is
NumAdd(x, y) == Norm(x.n * y.d + y.n * x.d, x.d * y.d, x.fl \/ y.fl)

\* x - y
NumSub(x, y) == Norm(x.n * y.d - y.n * x.d, x.d * y.d, x.fl \/ y.fl)

\* x * y
NumMul(x, y) == Norm(x.n * y.n, x.d * y.d, x.fl \/ y.fl)

\* x / y, y nonzero: true division always gives a float
NumTrueDiv(x, y) == Norm(x.n * y.d, x.d * y.n, TRUE)

\* x ** k for an integer k (x nonzero when k < 0): int ** negative is a float
RECURSIVE NumPow(_, _)
NumPow(x, k) ==
    IF k = 0 THEN [n |-> 1, d |-> 1, fl |-> x.fl]
    ELSE IF k > 0 THEN NumMul(x, NumPow(x, k - 1))
    ELSE NumTrueDiv([n |-> 1, d |-> 1, fl |-> x.fl], NumPow(x, -k))

\* int(x): truncation toward zero
NumTrunc(x) ==
    PyInt((Abs(x.n) \div x.d) * (IF x.n < 0 THEN -1 ELSE 1))

(***************************************************************************)
(* Units                                                                   *)
(***************************************************************************)
\* class SIBase: the six base dimensions, named by their values
SIBase == {"kg", "s", "K", "A", "mol", "m"}

\* a dict literal {k: v}: a set of key/value pairs
EmptyDict == {}

\* dict.get(k, 0)
DictGet(dict, k) ==
    IF \E kv \in dict : kv[1] = k
    THEN (CHOOSE kv \in dict : kv[1] = k)[2]
    ELSE 0

\* the dict built by a comprehension over SIBase
DictOf(f) == {<<k, f[k]>> : k \in SIBase}

\* Unit.__init__: label, _bases, _factor, _offset
Unit__init__(label, bases_, factor, offset) ==
    [label |-> label, rawbases |-> bases_, factor |-> factor, offset |-> offset]

\* Unit(): every argument defaulted
UnitDefault == Unit__init__("", EmptyDict, PyInt(1), PyInt(0))

\* property Unit.bases: the exponent of every base, 0 where _bases has none
bases(u) == [k \in SIBase |-> DictGet(u.rawbases, k)]

\* Unit.__eq__: labels don't matter
Unit__eq__(self, other) ==
    /\ NumEq(self.factor, other.factor)
    /\ NumEq(self.offset, other.offset)
    /\ bases(self) = bases(other)

\* SIBase.unit(): the Unit of a base dimension (exponent 1 on itself)
SIBase_unit(k) ==
    Unit__init__(k, DictOf([j \in SIBase |-> IF j = k THEN 1 ELSE 0]),
                 PyInt(1), PyInt(0))

(***************************************************************************)
(* Values and outcomes of a call                                           *)
(***************************************************************************)
\* UnitVal.__init__: unit or Unit() is the unit given (a Unit is truthy)
UnitVal__init__(val, unit) == [val |-> val, unit |-> unit]

None == [kind |-> "None", val |-> PyInt(0), unit |-> UnitDefault]
AUnit(u) == [kind |-> "Unit", val |-> PyInt(0), unit |-> u]
AUnitVal(uv) == [kind |-> "UnitVal", val |-> uv.val, unit |-> uv.unit]
ANum(x) == [kind |-> "Num", val |-> x, unit |-> UnitDefault]
AsUnitVal(v) == UnitVal__init__(v.val, v.unit)

Return(v) == [status |-> "ok", out |-> v]
Raise(err) == [status |-> err, out |-> None]

ErrMul == "Cannot multiply a derived unit with an offset"
ErrDiv == "Cannot divide a derived unit with an offset"
ErrNumerator == "// operator requires numerator to be 1"
ErrInvert == "Cannot invert derived unit with offset"
ErrPow == "Cannot exponeniate a derived unit with an offset"
ErrToUnit == "AssertionError"
ErrAdd == "Cannot add numbers of different units"
ErrSub == "Cannot subtract numbers of different units"
ErrUnitless == "Cannot cast into unitless number"
ErrInteger == "Cannot cast to integer!"
ErrConvert == "Cannot convert"
ErrInvalidUnit == "invalid unit"
ErrZeroDivision == "ZeroDivisionError"
ErrNonFloat == "TypeError: __float__ returned non-float"

(***************************************************************************)
(* Unit methods                                                            *)
(***************************************************************************)
\* Unit.__rmul__: val * unit
Unit__rmul__(self, val) == Return(AUnitVal(UnitVal__init__(val, self)))

\* Unit.__mul__
Unit__mul__(self, u) ==
    IF ~NumEq(self.offset, PyInt(0)) THEN Raise(ErrMul)
    ELSE Return(AUnit(Unit__init__(
        self.label \o "." \o u.label,
        DictOf([k \in SIBase |-> bases(self)[k] + bases(u)[k]]),
        NumMul(self.factor, u.factor), PyInt(0))))

\* Unit.__truediv__
Unit__truediv__(self, u) ==
    IF ~NumEq(self.offset, PyInt(0)) THEN Raise(ErrDiv)
    ELSE Return(AUnit(Unit__init__(
        self.label \o "." \o u.label,
        DictOf([k \in SIBase |-> bases(self)[k] - bases(u)[k]]),
        NumMul(self.factor, u.factor), PyInt(0))))

\* Unit.__rfloordiv__: v // unit
Unit__rfloordiv__(self, v) ==
    IF v # 1 THEN Raise(ErrNumerator)
    ELSE IF ~NumEq(self.offset, PyInt(0)) THEN Raise(ErrInvert)
    ELSE IF self.factor.n = 0 THEN Raise(ErrZeroDivision)
    ELSE Return(AUnit(Unit__init__(
        "1/" \o self.label,
        DictOf([k \in SIBase |-> -bases(self)[k]]),
        NumTrueDiv(PyInt(1), self.factor), PyInt(0))))

\* Unit.__pow__
Unit__pow__(self, pow) ==
    IF ~NumEq(self.offset, PyInt(0)) THEN Raise(ErrPow)
    ELSE IF self.factor.n = 0 /\ pow < 0 THEN Raise(ErrZeroDivision)
    ELSE Return(AUnit(Unit__init__(
        self.label \o "^" \o ToString(pow),
        DictOf([k \in SIBase |-> bases(self)[k] * pow]),
        NumPow(self.factor, pow), PyInt(0))))

\* Unit.toUnit
Unit_toUnit(self, label) ==
    IF ~(NumEq(self.factor, PyInt(1)) /\ NumEq(self.offset, PyInt(0)))
    THEN Raise(ErrToUnit)
    ELSE Return(AUnit(Unit__init__(label, DictOf(bases(self)), PyInt(1), PyInt(0))))

(***************************************************************************)
(* UnitVal methods.  Python evaluates the arguments of UnitVal(val=..,     *)
(* unit=..) left to right: the value first, then the unit.                 *)
(***************************************************************************)
\* UnitVal.__add__ returning the left operand's unit
UnitVal__add__KeepUnit(self, u) ==
    IF ~Unit__eq__(self.unit, u.unit) THEN Raise(ErrAdd)
    ELSE Return(AUnitVal(UnitVal__init__(NumAdd(self.val, u.val), self.unit)))

\* UnitVal.__add__
UnitVal__add__(self, u) ==
    IF ~Unit__eq__(self.unit, u.unit) THEN Raise(ErrAdd)
    ELSE LET val == NumAdd(self.val, u.val)
             unit == Unit__mul__(self.unit, u.unit)
         IN IF unit.status # "ok" THEN unit
            ELSE Return(AUnitVal(UnitVal__init__(val, unit.out.unit)))

\* UnitVal.__sub__
UnitVal__sub__(self, u) ==
    IF ~Unit__eq__(self.unit, u.unit) THEN Raise(ErrSub)
    ELSE LET val == NumSub(self.val, u.val)
             unit == Unit__mul__(self.unit, u.unit)
         IN IF unit.status # "ok" THEN unit
            ELSE Return(AUnitVal(UnitVal__init__(val, unit.out.unit)))

\* val,unit = (u.val,u.unit) if isinstance(u,UnitVal) else (1,u)
Operand(u) ==
    IF u.kind = "UnitVal" THEN UnitVal__init__(u.val, u.unit)
    ELSE UnitVal__init__(PyInt(1), u.unit)

\* UnitVal.__mul__ by a UnitVal or a Unit
UnitVal__mul__(self, u) ==
    LET o == Operand(u)
        val == NumMul(self.val, o.val)
        unit == Unit__mul__(self.unit, o.unit)
    IN IF unit.status # "ok" THEN unit
       ELSE Return(AUnitVal(UnitVal__init__(val, unit.out.unit)))

\* UnitVal.__truediv__ by a UnitVal or a Unit
UnitVal__truediv__(self, u) ==
    LET o == Operand(u)
        unit == Unit__truediv__(self.unit, o.unit)
    IN IF o.val.n = 0 THEN Raise(ErrZeroDivision)
       ELSE IF unit.status # "ok" THEN unit
       ELSE Return(AUnitVal(UnitVal__init__(NumTrueDiv(self.val, o.val),
                                            unit.out.unit)))

\* all([x == 0 for x in self.unit.bases.values()])
Unitless(unit) == \A k \in SIBase : bases(unit)[k] = 0

\* UnitVal.__float__
UnitVal__float__(self) ==
    IF ~Unitless(self.unit) THEN Raise(ErrUnitless)
    ELSE Return(ANum(self.val))

\* float(unitval): the interpreter rejects a __float__ that returns an int
float(self) ==
    LET r == UnitVal__float__(self)
    IN IF r.status = "ok" /\ ~r.out.val.fl THEN Raise(ErrNonFloat) ELSE r

\* UnitVal.__int__
UnitVal__int__(self) ==
    IF ~Unitless(self.unit) THEN Raise(ErrUnitless)
    ELSE IF ~NumEq(NumTrunc(self.val), self.val) THEN Raise(ErrInteger)
    ELSE Return(ANum(NumTrunc(self.val)))

\* UnitVal.toUnit
UnitVal_toUnit(self, label) ==
    Return(AUnit(Unit__init__(label, DictOf(bases(self.unit)),
                              NumMul(self.unit.factor, self.val), PyInt(0))))

\* UnitVal.to adding the target's offset before scaling by its factor
UnitVal_to_OffsetFirst(self, u_) ==
    LET u == IF u_.kind = "None"
             THEN Unit__init__("", DictOf(bases(self.unit)), PyInt(1), PyInt(0))
             ELSE u_.unit
    IN IF bases(u) # bases(self.unit) THEN Raise(ErrConvert)
       ELSE IF self.unit.factor.n = 0 THEN Raise(ErrZeroDivision)
       ELSE LET self_si == NumTrueDiv(NumSub(self.val, self.unit.offset),
                                      self.unit.factor)
            IN Return(AUnitVal(UnitVal__init__(
                   NumMul(NumAdd(self_si, u.offset), u.factor), u)))

\* UnitVal.to without the assertion on the bases
UnitVal_to_NoCheck(self, u_) ==
    LET u == IF u_.kind = "None"
             THEN Unit__init__("", DictOf(bases(self.unit)), PyInt(1), PyInt(0))
             ELSE u_.unit
    IN IF self.unit.factor.n = 0 THEN Raise(ErrZeroDivision)
       ELSE LET self_si == NumTrueDiv(NumSub(self.val, self.unit.offset),
                                      self.unit.factor)
            IN Return(AUnitVal(UnitVal__init__(
                   NumAdd(NumMul(self_si, u.factor), u.offset), u)))

\* UnitVal.to: u_ or Unit(bases = self.unit.bases)
UnitVal_to(self, u_) ==
    LET u == IF u_.kind = "None"
             THEN Unit__init__("", DictOf(bases(self.unit)), PyInt(1), PyInt(0))
             ELSE u_.unit
    IN IF bases(u) # bases(self.unit) THEN Raise(ErrConvert)
       ELSE IF self.unit.factor.n = 0 THEN Raise(ErrZeroDivision)
       ELSE LET self_si == NumTrueDiv(NumSub(self.val, self.unit.offset),
                                      self.unit.factor)
            IN Return(AUnitVal(UnitVal__init__(
                   NumAdd(NumMul(self_si, u.factor), u.offset), u)))

\* SafeConstructor.__init__ comparing whole units
SafeConstructor__init__WholeUnit(default, val_) ==
    IF ~Unit__eq__(val_.unit, default) THEN Raise(ErrInvalidUnit)
    ELSE Return(AUnitVal(UnitVal__init__(val_.val, val_.unit)))

\* SafeConstructor.__init__
SafeConstructor__init__(default, val_) ==
    IF bases(val_.unit) # bases(default) THEN Raise(ErrInvalidUnit)
    ELSE Return(AUnitVal(UnitVal__init__(val_.val, val_.unit)))

(***************************************************************************)
(* The catalog of unit.py and the inputs                                   *)
(***************************************************************************)
\* m and K as in unit.py; C and F with their offsets (-273.15, -459.67)
\* rounded to whole floats, which keeps the exact arithmetic small
m == SIBase_unit("m")
K == SIBase_unit("K")
C == Unit__init__("C", {<<"K", 1>>}, PyInt(1), PyFloat(-273, 1))
F == Unit__init__("F", {<<"K", 1>>}, PyFloat(9, 5), PyFloat(-460, 1))

\* a unit equal to m under another label, and a scaled length
x == Unit__init__("x", {<<"m", 1>>}, PyInt(1), PyInt(0))
yard == Unit__init__("yard", DictOf(bases(m)), PyInt(2), PyInt(0))

UnitPool == {UnitDefault, m, x, yard, K, C, F}
ValPoolP == {PyInt(2), PyFloat(5, 2)}
ValPoolQ == {PyInt(0), PyInt(3)}

(***************************************************************************)
(* The dict objects                                                        *)
(***************************************************************************)
\* the dict that is the default of bases in Unit.__init__: one object,
\* shared by every Unit built without bases
DefaultDict == 1

\* the _bases object of each unit of the pool
PoolRef(u) ==
    CASE u = UnitDefault -> DefaultDict
      [] u = m -> 2
      [] u = x -> 3
      [] u = yard -> 4
      [] u = K -> 5
      [] u = C -> 6
      [] u = F -> 7

\* the dicts that exist once unit.py is imported
InitHeap ==
    <<EmptyDict, m.rawbases, x.rawbases, yard.rawbases, K.rawbases,
      C.rawbases, F.rawbases>>

NoRef == 0
Kept(h) == [heap |-> h, ref |-> NoRef]

\* property Unit.bases filling the missing exponents into self._bases
\* and returning that dict
Unit_bases_setdefault(h, r) ==
    LET d == DictOf([k \in SIBase |-> DictGet(h[r], k)])
    IN [heap |-> [h EXCEPT ![r] = d], dict |-> d, ref |-> r]

\* property Unit.bases on the unit whose _bases is the dict r: a new dict,
\* built by a comprehension (ref: none yet, no Unit holds it)
Unit_bases(h, r) ==
    [heap |-> h,
     dict |-> DictOf([k \in SIBase |-> DictGet(h[r], k)]),
     ref |-> NoRef]

\* the heap after self.bases[..] was read
ReadBases(h, r) == Unit_bases(h, r).heap

\* self._bases = bases, with a dict no Unit held before
NewDict(h, dict) == [heap |-> Append(h, dict), ref |-> Len(h) + 1]

\* self._bases = bases, with the dict a call of the property returned
StoreBases(got) ==
    IF got.ref = NoRef THEN NewDict(got.heap, got.dict)
    ELSE [heap |-> got.heap, ref |-> got.ref]

\* Unit.__mul__ and Unit.__truediv__: the dict of the unit returned
Unit__mul__heap(h, s, g, res) ==
    IF res.status # "ok" THEN Kept(h)
    ELSE NewDict(ReadBases(ReadBases(h, s), g), res.out.unit.rawbases)

\* Unit.__rfloordiv__ and Unit.__pow__
Unit__pow__heap(h, s, res) ==
    IF res.status \in {ErrNumerator, ErrInvert, ErrPow} THEN Kept(h)
    ELSE IF res.status # "ok" THEN Kept(ReadBases(h, s))
    ELSE NewDict(ReadBases(h, s), res.out.unit.rawbases)

\* Unit.toUnit and UnitVal.toUnit: Unit(label, self.bases)
Unit_toUnit_heap(h, s, res) ==
    IF res.status # "ok" THEN Kept(h) ELSE StoreBases(Unit_bases(h, s))

\* Unit.__eq__: the bases are compared when factor and offset are equal
Unit__eq__heap(h, s, g, self, other) ==
    IF NumEq(self.factor, other.factor) /\ NumEq(self.offset, other.offset)
    THEN ReadBases(ReadBases(h, s), g)
    ELSE h

\* UnitVal.__add__ and UnitVal.__sub__
UnitVal__add__heap(h, s, g, self, u, res) ==
    LET h1 == Unit__eq__heap(h, s, g, self.unit, u.unit)
    IN IF res.status \in {ErrAdd, ErrSub} THEN Kept(h1)
       ELSE Unit__mul__heap(h1, s, g, res)

\* UnitVal.__mul__ and UnitVal.__truediv__
UnitVal__mul__heap(h, s, g, res) ==
    IF res.status = ErrZeroDivision THEN Kept(h)
    ELSE Unit__mul__heap(h, s, g, res)

\* UnitVal.__float__ and UnitVal.__int__
UnitVal__float__heap(h, s) == Kept(ReadBases(h, s))

\* UnitVal.to: the unit returned is u_, or a new Unit on self.unit.bases
UnitVal_to_heap(h, s, g, res) ==
    LET u == IF g = NoRef THEN StoreBases(Unit_bases(h, s))
             ELSE [heap |-> h, ref |-> g]
        h1 == ReadBases(ReadBases(u.heap, u.ref), s)
    IN IF res.status # "ok" THEN Kept(h1) ELSE [heap |-> h1, ref |-> u.ref]

\* SafeConstructor.__init__: the unit of the value given
SafeConstructor__init__heap(h, s, g, res) ==
    LET h1 == ReadBases(ReadBases(h, s), g)
    IN IF res.status # "ok" THEN Kept(h1) ELSE [heap |-> h1, ref |-> s]

\* the dicts after a call, and the dict of the unit it returned
HeapEffect(op, h, s, g, self, arg, res) ==
    CASE op \in {"Unit.__mul__", "Unit.__truediv__"} -> Unit__mul__heap(h, s, g, res)
      [] op \in {"Unit.__rfloordiv__", "Unit.__pow__"} -> Unit__pow__heap(h, s, res)
      [] op \in {"Unit.toUnit", "UnitVal.toUnit"} -> Unit_toUnit_heap(h, s, res)
      [] op = "Unit.__rmul__" -> [heap |-> h, ref |-> s]
      [] op \in {"UnitVal.__add__", "UnitVal.__sub__"} ->
             UnitVal__add__heap(h, s, g, self, arg, res)
      [] op \in {"UnitVal.__mul__", "UnitVal.__truediv__"} ->
             UnitVal__mul__heap(h, s, g, res)
      [] op \in {"float", "UnitVal.__int__"} -> UnitVal__float__heap(h, s)
      [] op = "UnitVal.to" -> UnitVal_to_heap(h, s, g, res)
      [] op = "SafeConstructor.__init__" -> SafeConstructor__init__heap(h, s, g, res)

\* the operands: two units, and a value in each of them (v * a, v * b)
Init ==
    /\ a \in UnitPool
    /\ b \in UnitPool
    /\ \E v \in ValPoolP : p = UnitVal__init__(v, a)
    /\ \E v \in ValPoolQ : q = UnitVal__init__(v, b)
    /\ chain = <<>>
    /\ heap = InitHeap
    /\ refs = <<>>

(***************************************************************************)
(* Calls                                                                   *)
(***************************************************************************)
Top == chain[Len(chain)]

\* the previous call returned a value of this kind
TopIs(kind) ==
    /\ chain # <<>>
    /\ Top.status = "ok"
    /\ Top.out.kind = kind

\* one call: the first of the expression, on the first input, or a later one
\* (chained), on the value the previous call returned
Call(op, chained, self, arg, res) ==
    /\ IF chained THEN Len(chain) < MaxChain ELSE chain = <<>>
    /\ LET rec == [op |-> op, self |-> self, arg |-> arg,
                   status |-> res.status, out |-> res.out]
           s == IF chained THEN refs[Len(refs)].out ELSE PoolRef(a)
           g == IF arg.kind \in {"Unit", "UnitVal"} THEN PoolRef(arg.unit) ELSE NoRef
           eff == HeapEffect(op, heap, s, g, self, arg, res)
           r == [self |-> s, arg |-> g, out |-> eff.ref]
       IN /\ chain' = IF chained THEN Append(chain, rec) ELSE <<rec>>
          /\ refs' = IF chained THEN Append(refs, r) ELSE <<r>>
          /\ heap' = eff.heap
    /\ UNCHANGED <<a, b, p, q>>

\* <<chained, receiver>>
UnitReceivers ==
    {<<FALSE, a>>} \cup (IF TopIs("Unit") THEN {<<TRUE, Top.out.unit>>} ELSE {})

UnitValReceivers ==
    {<<FALSE, p>>} \cup (IF TopIs("UnitVal") THEN {<<TRUE, AsUnitVal(Top.out)>>} ELSE {})

\* the arguments of ** and //, the values given a unit, the label of a new unit
PowArgs == {2, -1}
NumeratorArgs == {1, 2}
RmulArgs == {PyInt(1), PyFloat(5, 2)}
LabelArg == "yard"

UnitMul ==
    \E r \in UnitReceivers, u \in {a, b} :
        Call("Unit.__mul__", r[1], AUnit(r[2]), AUnit(u), Unit__mul__(r[2], u))

UnitTrueDiv ==
    \E r \in UnitReceivers, u \in {a, b} :
        Call("Unit.__truediv__", r[1], AUnit(r[2]), AUnit(u), Unit__truediv__(r[2], u))

UnitRFloorDiv ==
    \E r \in UnitReceivers, v \in NumeratorArgs :
        Call("Unit.__rfloordiv__", r[1], AUnit(r[2]), ANum(PyInt(v)),
             Unit__rfloordiv__(r[2], v))

UnitPow ==
    \E r \in UnitReceivers, pow \in PowArgs :
        Call("Unit.__pow__", r[1], AUnit(r[2]), ANum(PyInt(pow)), Unit__pow__(r[2], pow))

UnitToUnit ==
    \E r \in UnitReceivers :
        Call("Unit.toUnit", r[1], AUnit(r[2]), None, Unit_toUnit(r[2], LabelArg))

UnitRmul ==
    \E r \in UnitReceivers, v \in RmulArgs :
        Call("Unit.__rmul__", r[1], AUnit(r[2]), ANum(v), Unit__rmul__(r[2], v))

Add ==
    \E r \in UnitValReceivers, u \in {p, q} :
        Call("UnitVal.__add__", r[1], AUnitVal(r[2]), AUnitVal(u), UnitVal__add__(r[2], u))

Sub ==
    \E r \in UnitValReceivers, u \in {p, q} :
        Call("UnitVal.__sub__", r[1], AUnitVal(r[2]), AUnitVal(u), UnitVal__sub__(r[2], u))

Mul ==
    \E r \in UnitValReceivers, u \in {AUnitVal(p), AUnitVal(q), AUnit(a), AUnit(b)} :
        Call("UnitVal.__mul__", r[1], AUnitVal(r[2]), u, UnitVal__mul__(r[2], u))

TrueDiv ==
    \E r \in UnitValReceivers, u \in {AUnitVal(p), AUnitVal(q), AUnit(a), AUnit(b)} :
        Call("UnitVal.__truediv__", r[1], AUnitVal(r[2]), u, UnitVal__truediv__(r[2], u))

CastFloat ==
    \E r \in UnitValReceivers :
        Call("float", r[1], AUnitVal(r[2]), None, float(r[2]))

CastInt ==
    \E r \in UnitValReceivers :
        Call("UnitVal.__int__", r[1], AUnitVal(r[2]), None, UnitVal__int__(r[2]))

ToUnit ==
    \E r \in UnitValReceivers :
        Call("UnitVal.toUnit", r[1], AUnitVal(r[2]), None, UnitVal_toUnit(r[2], LabelArg))

To ==
    \E r \in UnitValReceivers, u \in {AUnit(a), AUnit(b), None} :
        Call("UnitVal.to", r[1], AUnitVal(r[2]), u, UnitVal_to(r[2], u))

\* SafeConstructor(default, val_): the value is the one under construction
Construct ==
    \E r \in UnitValReceivers, default \in {a, b} :
        Call("SafeConstructor.__init__", r[1], AUnitVal(r[2]), AUnit(default),
             SafeConstructor__init__(default, r[2]))

Next ==
    \/ UnitMul
    \/ UnitTrueDiv
    \/ UnitRFloorDiv
    \/ UnitPow
    \/ UnitToUnit
    \/ UnitRmul
    \/ Add
    \/ Sub
    \/ Mul
    \/ TrueDiv
    \/ CastFloat
    \/ CastInt
    \/ ToUnit
    \/ To
    \/ Construct

Spec == Init /\ [][Next]_vars

(***************************************************************************)
(* Properties                                                              *)
(***************************************************************************)
Calls == {chain[i] : i \in DOMAIN chain}
Pairs == {i \in DOMAIN chain : i + 1 \in DOMAIN chain}

Affine(u) == u.offset.n # 0
SameBases(u, v) == \A k \in SIBase : bases(u)[k] = bases(v)[k]
SameStructure(u, v) ==
    /\ u.factor.n = v.factor.n /\ u.factor.d = v.factor.d
    /\ u.offset.n = v.offset.n /\ u.offset.d = v.offset.d
    /\ SameBases(u, v)
IsProduct(w, u, v) ==
    /\ \A k \in SIBase : bases(w)[k] = bases(u)[k] + bases(v)[k]
    /\ NumEq(w.factor, NumMul(u.factor, v.factor))
    /\ ~Affine(w)

\* C1: Unit multiplication and division, and UnitVal multiplication and
\* division, fail with the affine-unit error whenever either operand's unit
\* has a nonzero offset, and succeed only when both offsets are 0.
C1_AffineEitherOperandRejected ==
    \A c \in Calls :
        /\ c.op \in {"Unit.__mul__", "Unit.__truediv__"} =>
              /\ c.status = "ok" <=> (~Affine(c.self.unit) /\ ~Affine(c.arg.unit))
              /\ c.status # "ok" => c.status \in {ErrMul, ErrDiv}
        /\ c.op \in {"UnitVal.__mul__", "UnitVal.__truediv__"} =>
              (c.status = "ok" => (~Affine(c.self.unit) /\ ~Affine(c.arg.unit)))

\* C2: for Units a and b with zero offset, a/b is a Unit whose exponents are
\* a.bases - b.bases, whose factor is a.factor / b.factor, whose offset is 0.
C2_DivideExponentsAndFactor ==
    \A c \in Calls :
        (c.op = "Unit.__truediv__" /\ ~Affine(c.self.unit) /\ ~Affine(c.arg.unit)) =>
            /\ c.status = "ok"
            /\ \A k \in SIBase :
                   bases(c.out.unit)[k] = bases(c.self.unit)[k] - bases(c.arg.unit)[k]
            /\ NumEq(c.out.unit.factor, NumTrueDiv(c.self.unit.factor, c.arg.unit.factor))
            /\ ~Affine(c.out.unit)

\* C3: for Units u and u_other with zero offset, (u * u_other) / u_other is
\* structurally equal to u.
C3_MultiplyDivideRoundTrip ==
    \A i \in Pairs :
        (/\ chain[i].op = "Unit.__mul__"
         /\ chain[i + 1].op = "Unit.__truediv__"
         /\ chain[i + 1].arg = chain[i].arg
         /\ ~Affine(chain[i].self.unit) /\ ~Affine(chain[i].arg.unit)) =>
            /\ chain[i + 1].status = "ok"
            /\ Unit__eq__(chain[i + 1].out.unit, chain[i].self.unit)

\* C4: two UnitVals that carry the same affine unit can be added and
\* subtracted: the call succeeds with value a.val + b.val (a.val - b.val).
C4_AffineAddSubtractSucceed ==
    \A c \in Calls :
        (/\ c.op \in {"UnitVal.__add__", "UnitVal.__sub__"}
         /\ SameStructure(c.self.unit, c.arg.unit)
         /\ Affine(c.self.unit)) =>
            /\ c.status = "ok"
            /\ c.out.kind = "UnitVal"
            /\ NumEq(c.out.val, IF c.op = "UnitVal.__add__"
                                THEN NumAdd(c.self.val, c.arg.val)
                                ELSE NumSub(c.self.val, c.arg.val))

\* C5: for UnitVals a and b with non-affine units, a + b (a - b) fails with
\* the mismatched-units error when the units are not structurally equal
\* (labels ignored); otherwise it succeeds with value a.val + b.val
\* (a.val - b.val) and unit a.unit * b.unit: every exponent doubled, the
\* factor squared, offset 0.
C5_AddSubtractNonAffine ==
    \A c \in Calls :
        (/\ c.op \in {"UnitVal.__add__", "UnitVal.__sub__"}
         /\ ~Affine(c.self.unit) /\ ~Affine(c.arg.unit)) =>
            IF SameStructure(c.self.unit, c.arg.unit)
            THEN /\ c.status = "ok"
                 /\ c.out.kind = "UnitVal"
                 /\ NumEq(c.out.val, IF c.op = "UnitVal.__add__"
                                     THEN NumAdd(c.self.val, c.arg.val)
                                     ELSE NumSub(c.self.val, c.arg.val))
                 /\ IsProduct(c.out.unit, c.self.unit, c.arg.unit)
                 /\ \A k \in SIBase : bases(c.out.unit)[k] = 2 * bases(c.self.unit)[k]
                 /\ NumEq(c.out.unit.factor, NumPow(c.self.unit.factor, 2))
            ELSE c.status = (IF c.op = "UnitVal.__add__" THEN ErrAdd ELSE ErrSub)

\* an addition of two scaled units that are equal but for their labels
C5_Witness ==
    \E c \in Calls :
        /\ c.op = "UnitVal.__add__"
        /\ c.status = "ok"
        /\ c.self.unit.label # c.arg.unit.label
        /\ \E k \in SIBase : bases(c.out.unit)[k] = 2

\* C6: for a UnitVal q and a target t with t.bases = q.unit.bases (factors
\* > 0, any offsets), q.to(t).to(q.unit) has the unit q.unit and, in exact
\* arithmetic, the value q.val.
C6_ConversionRoundTrip ==
    \A i \in Pairs :
        (/\ chain[i].op = "UnitVal.to"
         /\ chain[i + 1].op = "UnitVal.to"
         /\ chain[i].arg.kind = "Unit"
         /\ SameBases(chain[i].arg.unit, chain[i].self.unit)
         /\ chain[i].self.unit.factor.n > 0
         /\ chain[i].arg.unit.factor.n > 0
         /\ chain[i + 1].arg = AUnit(chain[i].self.unit)) =>
            /\ chain[i].status = "ok"
            /\ chain[i + 1].status = "ok"
            /\ chain[i + 1].out.unit = chain[i].self.unit
            /\ NumEq(chain[i + 1].out.val, chain[i].self.val)

\* a round trip between two affine units of different factor and offset
C6_Witness ==
    \E i \in Pairs :
        /\ chain[i].op = "UnitVal.to"
        /\ chain[i + 1].op = "UnitVal.to"
        /\ chain[i + 1].status = "ok"
        /\ chain[i + 1].arg = AUnit(chain[i].self.unit)
        /\ Affine(chain[i].self.unit) /\ Affine(chain[i].arg.unit)
        /\ ~NumEq(chain[i].arg.unit.factor, chain[i].self.unit.factor)
        /\ ~NumEq(chain[i].arg.unit.offset, chain[i].self.unit.offset)
        /\ ~NumEq(chain[i].out.val, chain[i].self.val)

\* C7: q.to(target) fails with the incompatible-units error exactly when
\* target.bases differs from q.unit.bases; a difference in factor, offset or
\* label alone never makes it fail, and on success the result's unit is
\* target, or with no target the unit of q.unit's bases, factor 1, offset 0.
C7_ConversionFailsOnBasesOnly ==
    \A c \in Calls :
        c.op = "UnitVal.to" =>
            /\ c.status = ErrConvert <=>
                   (c.arg.kind = "Unit" /\ ~SameBases(c.arg.unit, c.self.unit))
            /\ (c.status # ErrConvert /\ c.self.unit.factor.n > 0) => c.status = "ok"
            /\ c.status = "ok" =>
                   /\ c.out.kind = "UnitVal"
                   /\ c.arg.kind = "Unit" => c.out.unit = c.arg.unit
                   /\ c.arg.kind = "None" =>
                          /\ SameBases(c.out.unit, c.self.unit)
                          /\ NumEq(c.out.unit.factor, PyInt(1))
                          /\ ~Affine(c.out.unit)

\* a conversion to a target of other factor, offset and label that succeeds
C7_Witness ==
    \E c \in Calls :
        /\ c.op = "UnitVal.to"
        /\ c.status = "ok"
        /\ c.arg.kind = "Unit"
        /\ c.arg.unit.label # c.self.unit.label
        /\ ~NumEq(c.arg.unit.factor, c.self.unit.factor)
        /\ ~NumEq(c.arg.unit.offset, c.self.unit.offset)

\* C8: a safe constructor of expected dimension D accepts q if and only if
\* q.unit.bases = D.bases, whatever q.unit's factor and offset; the value it
\* constructs has exactly q.val and q.unit.
C8_SafeConstructorChecksBasesOnly ==
    \A c \in Calls :
        c.op = "SafeConstructor.__init__" =>
            /\ c.status = "ok" <=> SameBases(c.self.unit, c.arg.unit)
            /\ c.status # "ok" => c.status = ErrInvalidUnit
            /\ c.status = "ok" =>
                   /\ c.out.kind = "UnitVal"
                   /\ c.out.val = c.self.val
                   /\ c.out.unit = c.self.unit

\* a scaled affine temperature accepted by the constructor of K
C8_Witness ==
    \E c \in Calls :
        /\ c.op = "SafeConstructor.__init__"
        /\ c.status = "ok"
        /\ c.arg.unit = K
        /\ Affine(c.self.unit)
        /\ ~NumEq(c.self.unit.factor, PyInt(1))

\* C9: float(q) succeeds and returns q.val if and only if every exponent of
\* q.unit is 0; int(q) has the same precondition and fails as well when q.val
\* has a fractional part.
C9_UnitlessCasts ==
    \A c \in Calls :
        /\ c.op = "float" =>
              /\ c.status = "ok" <=> Unitless(c.self.unit)
              /\ c.status = "ok" => c.out = ANum(c.self.val)
              /\ ~Unitless(c.self.unit) => c.status = ErrUnitless
        /\ c.op = "UnitVal.__int__" =>
              /\ c.status = "ok" <=> (Unitless(c.self.unit) /\ c.self.val.d = 1)
              /\ c.status = "ok" => NumEq(c.out.val, c.self.val)
              /\ ~Unitless(c.self.unit) => c.status = ErrUnitless

\* C10: for a UnitVal q with a non-affine unit and q.val > 0, the unit
\* U = q.toUnit(label) has the bases of q.unit, and one of U is q:
\* (1 * U).to(q.unit) has value q.val.
C10_DerivedUnitNamesQuantity ==
    \A i \in Pairs :
        (/\ chain[i].op = "UnitVal.toUnit"
         /\ ~Affine(chain[i].self.unit)
         /\ chain[i].self.val.n > 0
         /\ chain[i].self.unit.factor.n > 0
         /\ chain[i + 1].op = "Unit.__rmul__"
         /\ NumEq(chain[i + 1].arg.val, PyInt(1))) =>
            LET one == AsUnitVal(chain[i + 1].out)
                back == UnitVal_to(one, AUnit(chain[i].self.unit))
            IN /\ chain[i].status = "ok"
               /\ SameBases(chain[i].out.unit, chain[i].self.unit)
               /\ back.status = "ok"
               /\ NumEq(back.out.val, chain[i].self.val)

\* the dict of a unit still holds the exponents the unit was built with
Intact(ref, unit) == ref # NoRef => heap[ref] = unit.rawbases

\* every Unit and UnitVal built so far is as it was built
C11_ValuesIntact ==
    /\ heap[DefaultDict] = EmptyDict
    /\ \A k \in SIBase : DictGet(heap[DefaultDict], k) = 0
    /\ \A u \in UnitPool : heap[PoolRef(u)] = u.rawbases
    /\ p.unit = a /\ q.unit = b
    /\ \A i \in DOMAIN chain :
           /\ Intact(refs[i].self, chain[i].self.unit)
           /\ Intact(refs[i].arg, chain[i].arg.unit)
           /\ Intact(refs[i].out, chain[i].out.unit)

\* a call changes no dict, no operand and no earlier call's values
C11_CallWritesNothing ==
    /\ \A i \in DOMAIN heap : heap'[i] = heap[i]
    /\ a' = a /\ b' = b /\ p' = p /\ q' = q
    /\ \A i \in DOMAIN chain : i \in DOMAIN chain' => chain'[i] = chain[i]

\* C11: no operation, successful or failing, mutates an existing value: the
\* factor, offset and bases of every Unit and the val and unit of every
\* UnitVal built before stay as they were, and the empty dict shared as the
\* default bases of Unit.__init__ is never written, so that a Unit built
\* with default bases stays dimensionless.
C11_NoOperationMutates == []C11_ValuesIntact /\ [][C11_CallWritesNothing]_vars

\* two Units that share the default dict were multiplied and the product
\* was used in a second call
C11_Witness ==
    /\ a = UnitDefault /\ b = UnitDefault
    /\ Len(chain) = 2
    /\ chain[1].op = "Unit.__mul__" /\ chain[1].status = "ok"
    /\ refs[1].self = DefaultDict /\ refs[1].arg = DefaultDict
    /\ refs[1].out \notin {NoRef, DefaultDict}
    /\ chain[2].status = "ok"

====
